---- MODULE Spec2Model ----
(***************************************************************************)
(* A model of calculator.py: the text buffer of the calculator (input_text),*)
(* its angle mode (is_degree_mode), the button and key handlers that edit   *)
(* the buffer, and _evaluate_expression, which hands the buffer to Python's *)
(* eval() with disabled builtins and the table of _build_safe_environment.  *)
(*                                                                         *)
(* Text is a sequence of one-character strings.  The glyphs of the source   *)
(* that are not ASCII are written by their code points: "u221A" is the      *)
(* square-root glyph, "u00F7" the division glyph, "u00D7" the              *)
(* multiplication glyph, "u03C0" the pi glyph, "u232B" the erase glyph,     *)
(* "u00B1" the plus-minus glyph and "xu00B2" the label x-squared.           *)
(***************************************************************************)
EXTENDS Integers, Sequences, FiniteSets, TLC

VARIABLES
    input_text,      \* self.input_text: the buffer (calculator.py:18)
    is_degree_mode,  \* self.is_degree_mode (calculator.py:17)
    ev,              \* the event handled last: [src, arg]
    dialogs,         \* the error dialogs shown while handling that event
    caught,          \* the exception _evaluate_expression caught in it
    escaped,         \* an exception left _evaluate_expression uncaught
    dispatched,      \* the operations eval() dispatched to in it
    safe_env,        \* the table _evaluate_expression built in it
    expr,            \* the text _evaluate_expression handed to eval() in it
    n_grow,          \* calls of _insert_text and _toggle_sign so far
    memo,            \* the evaluation before, when evaluations are recorded
    tree             \* the expression tree the first buffer was written from

vars == <<input_text, is_degree_mode, ev, dialogs, caught, escaped,
          dispatched, safe_env, expr, n_grow, memo, tree>>

(***************************************************************************)
(* Bounds of the model.                                                    *)
(***************************************************************************)
MaxGrow == 3        \* calls of _insert_text and _toggle_sign in one run
MaxGrowLen == 5     \* longest buffer that one of them is applied to
MaxAbs == 9999      \* largest integer magnitude the arithmetic represents
MaxFracBits == 4    \* floats are n / 2^k with k up to this
MaxTreeOps == 2     \* operators in an expression tree written out as a buffer
MaxRawLen == 3      \* length of the raw texts handed to the normalizer

(***************************************************************************)
(* Characters and text helpers.                                            *)
(***************************************************************************)
DigitChars == {"0", "1", "2", "3", "4", "5", "6", "7", "8", "9"}

LetterChars ==
    {"a", "b", "c", "d", "e", "f", "g", "h", "i", "j", "k", "l", "m", "n",
     "o", "p", "q", "r", "s", "t", "u", "v", "w", "x", "y", "z",
     "A", "B", "C", "D", "E", "F", "G", "H", "I", "J", "K", "L", "M", "N",
     "O", "P", "Q", "R", "S", "T", "U", "V", "W", "X", "Y", "Z", "_",
     "u03C0"}

IdChars == LetterChars \cup DigitChars

\* s[i], or "" past either end of s.
At(s, i) == IF i >= 1 /\ i <= Len(s) THEN s[i] ELSE ""

\* The first index from i on whose character is not in class.
RECURSIVE RunEnd(_, _, _)
RunEnd(s, i, class) ==
    IF i <= Len(s) /\ s[i] \in class THEN RunEnd(s, i + 1, class) ELSE i

\* str.strip() leaves nothing: the text is empty or all blanks.
IsBlank(s) == \A i \in 1..Len(s) : s[i] = " "

(***************************************************************************)
(* eval(), part 1: Python's tokenizer on the characters a buffer can hold.  *)
(* A token is [t, v]: t is "num", "name" or "op", with v the text of a     *)
(* number or name or the one-element sequence of an operator; or t is      *)
(* "bad", where Python's tokenizer rejects the text, or "unk", where the   *)
(* text leaves the part of the language modelled here.  Both end the       *)
(* token sequence.                                                         *)
(***************************************************************************)
Tok(t, v) == [t |-> t, v |-> v]
BadTok == Tok("bad", << >>)
UnkTok == Tok("unk", << >>)
EndTok == Tok("end", << >>)

\* Python's keywords: none of them is a name, and the expressions they
\* build (conditions, tests, lambdas, constants) are not modelled.
Keywords ==
    {<<"F", "a", "l", "s", "e">>, <<"N", "o", "n", "e">>,
     <<"T", "r", "u", "e">>, <<"a", "n", "d">>, <<"a", "s">>,
     <<"a", "s", "s", "e", "r", "t">>, <<"a", "s", "y", "n", "c">>,
     <<"a", "w", "a", "i", "t">>, <<"b", "r", "e", "a", "k">>,
     <<"c", "l", "a", "s", "s">>, <<"c", "o", "n", "t", "i", "n", "u", "e">>,
     <<"d", "e", "f">>, <<"d", "e", "l">>, <<"e", "l", "i", "f">>,
     <<"e", "l", "s", "e">>, <<"e", "x", "c", "e", "p", "t">>,
     <<"f", "i", "n", "a", "l", "l", "y">>, <<"f", "o", "r">>,
     <<"f", "r", "o", "m">>, <<"g", "l", "o", "b", "a", "l">>, <<"i", "f">>,
     <<"i", "m", "p", "o", "r", "t">>, <<"i", "n">>, <<"i", "s">>,
     <<"l", "a", "m", "b", "d", "a">>,
     <<"n", "o", "n", "l", "o", "c", "a", "l">>, <<"n", "o", "t">>,
     <<"o", "r">>, <<"p", "a", "s", "s">>, <<"r", "a", "i", "s", "e">>,
     <<"r", "e", "t", "u", "r", "n">>, <<"t", "r", "y">>,
     <<"w", "h", "i", "l", "e">>, <<"w", "i", "t", "h">>,
     <<"y", "i", "e", "l", "d">>}

\* Characters that belong to no token of Python.
InvalidChars == {"u00F7", "u00D7", "u00B1", "u232B", "u00B2", "$", "?"}

\* After a number literal, a letter that could begin a keyword, an
\* imaginary suffix, a digit separator or a radix prefix is not modelled;
\* any other name character makes the literal invalid.
NumberSuffixChars ==
    {"a", "e", "f", "i", "n", "o", "j", "J", "_", "E",
     "x", "X", "O", "b", "B"}

\* The end of the number literal that starts at i: digits, an optional
\* point and fraction, an optional exponent (only when digits follow it).
NumberEnd(s, i) ==
    LET p1 == RunEnd(s, i, DigitChars)
        p2 == IF At(s, p1) = "." THEN RunEnd(s, p1 + 1, DigitChars) ELSE p1
        signed == At(s, p2 + 1) \in {"+", "-"} /\ At(s, p2 + 2) \in DigitChars
        hasExp == At(s, p2) \in {"e", "E"}
                    /\ (At(s, p2 + 1) \in DigitChars \/ signed)
    IN  IF hasExp
        THEN RunEnd(s, IF signed THEN p2 + 2 ELSE p2 + 1, DigitChars)
        ELSE p2

IsFloatLiteral(lit) ==
    \E i \in 1..Len(lit) : lit[i] \in {".", "e", "E"}

\* A decimal integer literal has no leading zero unless it is all zeros.
ValidNumber(lit) ==
    \/ IsFloatLiteral(lit)
    \/ lit[1] # "0"
    \/ \A i \in 1..Len(lit) : lit[i] = "0"

RECURSIVE Lex(_, _)
Lex(s, i) ==
    IF i > Len(s) THEN << >>
    ELSE LET c == s[i] IN
      IF c = " " THEN Lex(s, i + 1)
      ELSE IF c \in DigitChars \/ (c = "." /\ At(s, i + 1) \in DigitChars) THEN
        LET j == NumberEnd(s, i)
            lit == SubSeq(s, i, j - 1)
        IN  IF At(s, j) \in NumberSuffixChars THEN <<UnkTok>>
            ELSE IF At(s, j) \in IdChars \/ ~ValidNumber(lit) THEN <<BadTok>>
            ELSE <<Tok("num", lit)>> \o Lex(s, j)
      ELSE IF c \in LetterChars THEN
        LET j == RunEnd(s, i, IdChars)
            name == SubSeq(s, i, j - 1)
        IN  IF name \in Keywords THEN <<UnkTok>>
            ELSE <<Tok("name", name)>> \o Lex(s, j)
      ELSE IF c = "." THEN
        IF At(s, i + 1) = "." /\ At(s, i + 2) = "."
        THEN <<Tok("op", <<"...">>)>> \o Lex(s, i + 3)
        ELSE <<Tok("op", <<".">>)>> \o Lex(s, i + 1)
      ELSE IF c \in {"*", "/"} THEN
        IF At(s, i + 1) = c
        THEN <<Tok("op", <<IF c = "*" THEN "**" ELSE "//">>)>> \o Lex(s, i + 2)
        ELSE <<Tok("op", <<c>>)>> \o Lex(s, i + 1)
      ELSE IF c \in {"+", "-", "(", ")"} THEN
        <<Tok("op", <<c>>)>> \o Lex(s, i + 1)
      ELSE IF c = "#" THEN << >>    \* a comment, to the end of the text
      ELSE IF c \in InvalidChars THEN <<BadTok>>
      ELSE <<UnkTok>>

Tokenize(s) == Lex(s, 1)

(***************************************************************************)
(* eval(), part 2: Python's expression grammar on those tokens.            *)
(*     sum:     sum ('+'|'-') term | term                                  *)
(*     term:    term ('*'|'/'|'//') factor | factor                        *)
(*     factor:  ('+'|'-') factor | power                                   *)
(*     power:   primary ['**' factor]                                      *)
(*     primary: primary '.' NAME | primary '(' [argument] ')' | atom       *)
(*     atom:    NAME | NUMBER | '(' [sum] ')' | '...'                      *)
(* The tree is kept in prefix order, a sequence of nodes [k, v]: a node is  *)
(* followed by its operands.  Parentheses leave no node.                   *)
(***************************************************************************)
Node(k, v) == [k |-> k, v |-> v]

Ok(ast, pos) == [ok |-> TRUE, ast |-> ast, pos |-> pos]
Fail == [ok |-> FALSE, ast |-> << >>, pos |-> 0]

TokAt(toks, i) == IF i >= 1 /\ i <= Len(toks) THEN toks[i] ELSE EndTok
IsOp(tok, o) == tok.t = "op" /\ tok.v = <<o>>

\* The operand of a unary operator is a factor.
UnaryOperandAtom == "atom"

UnaryOperandRule == "factor"

\* One rule of the grammar, applied to the tokens from i on.  ast is the
\* tree of what the rule continues: the primary before a trailer, the
\* callee of a call, the left operand of a chain of operators.
RECURSIVE Grammar(_, _, _, _)
Grammar(rule, toks, ast, i) ==
    LET t == TokAt(toks, i)
        u == TokAt(toks, i + 1)
    IN
    CASE rule = "atom" -> (
        IF t.t = "num" THEN Ok(<<Node("num", t.v)>>, i + 1)
        ELSE IF t.t = "name" THEN Ok(<<Node("name", t.v)>>, i + 1)
        ELSE IF IsOp(t, "...") THEN Ok(<<Node("ellipsis", << >>)>>, i + 1)
        ELSE IF IsOp(t, "(") THEN
            IF IsOp(u, ")") THEN Ok(<<Node("tuple", << >>)>>, i + 2)
            ELSE LET r == Grammar("sum", toks, << >>, i + 1) IN
                 IF r.ok /\ IsOp(TokAt(toks, r.pos), ")")
                 THEN Ok(r.ast, r.pos + 1) ELSE Fail
        ELSE Fail)
      [] rule \in {"call1", "callstar", "calldstar"} -> (
        \* one call argument, plain or unpacked with * or **
        LET r == Grammar("sum", toks, << >>, i) IN
        IF r.ok /\ IsOp(TokAt(toks, r.pos), ")")
        THEN Grammar("trailers", toks,
                     <<Node(rule, << >>)>> \o ast \o r.ast, r.pos + 1)
        ELSE Fail)
      [] rule = "trailers" -> (
        IF IsOp(t, ".") THEN
            IF u.t = "name"
            THEN Grammar("trailers", toks, <<Node("attr", u.v)>> \o ast, i + 2)
            ELSE Fail
        ELSE IF IsOp(t, "(") THEN
            IF IsOp(u, ")")
            THEN Grammar("trailers", toks, <<Node("call0", << >>)>> \o ast,
                         i + 2)
            ELSE IF IsOp(u, "*") THEN Grammar("callstar", toks, ast, i + 2)
            ELSE IF IsOp(u, "**") THEN Grammar("calldstar", toks, ast, i + 2)
            ELSE Grammar("call1", toks, ast, i + 1)
        ELSE Ok(ast, i))
      [] rule = "primary" -> (
        LET a == Grammar("atom", toks, << >>, i) IN
        IF a.ok THEN Grammar("trailers", toks, a.ast, a.pos) ELSE Fail)
      [] rule = "power" -> (
        LET p == Grammar("primary", toks, << >>, i) IN
        IF p.ok /\ IsOp(TokAt(toks, p.pos), "**")
        THEN LET r == Grammar("factor", toks, << >>, p.pos + 1) IN
             IF r.ok THEN Ok(<<Node("bin", <<"**">>)>> \o p.ast \o r.ast, r.pos)
             ELSE Fail
        ELSE p)
      [] rule = "factor" -> (
        IF IsOp(t, "-") \/ IsOp(t, "+") THEN
            LET r == Grammar(UnaryOperandRule, toks, << >>, i + 1) IN
            IF r.ok
            THEN Ok(<<Node(IF IsOp(t, "-") THEN "neg" ELSE "pos", << >>)>>
                        \o r.ast, r.pos)
            ELSE Fail
        ELSE Grammar("power", toks, << >>, i))
      [] rule = "termrest" -> (
        IF IsOp(t, "*") \/ IsOp(t, "/") \/ IsOp(t, "//") THEN
            LET r == Grammar("factor", toks, << >>, i + 1) IN
            IF r.ok
            THEN Grammar("termrest", toks,
                         <<Node("bin", t.v)>> \o ast \o r.ast, r.pos)
            ELSE Fail
        ELSE Ok(ast, i))
      [] rule = "term" -> (
        LET f == Grammar("factor", toks, << >>, i) IN
        IF f.ok THEN Grammar("termrest", toks, f.ast, f.pos) ELSE Fail)
      [] rule = "sumrest" -> (
        IF IsOp(t, "+") \/ IsOp(t, "-") THEN
            LET r == Grammar("term", toks, << >>, i + 1) IN
            IF r.ok
            THEN Grammar("sumrest", toks,
                         <<Node("bin", t.v)>> \o ast \o r.ast, r.pos)
            ELSE Fail
        ELSE Ok(ast, i))
      [] OTHER -> (   \* rule = "sum"
        LET f == Grammar("term", toks, << >>, i) IN
        IF f.ok THEN Grammar("sumrest", toks, f.ast, f.pos) ELSE Fail)

\* The whole of the tokens is one expression.
Whole(toks, r) == IF r.ok /\ r.pos = Len(toks) + 1 THEN r ELSE Fail

ParseTokens(toks) == Whole(toks, Grammar("sum", toks, << >>, 1))

\* compile(source, "<string>", "eval").
Parse(s) == ParseTokens(Tokenize(s))

(***************************************************************************)
(* eval(), part 3: the objects an expression evaluates to.  A value is     *)
(* [k, n, d, r].  An int is n (d = 1).  A float is the exact n / d with d a *)
(* power of two, or, when d = 0, a float known only by the digits r that    *)
(* Python's repr() prints for its magnitude, with sign n.  A function has   *)
(* its name in r.  An evaluation ends in a value, in an exception, or in   *)
(* "oom": outside the numbers this model represents.                       *)
(***************************************************************************)
MkV(k, n, d, r) == [k |-> k, n |-> n, d |-> d, r |-> r]

NoVal == MkV("none", 0, 1, << >>)
IntV(n) == MkV("int", n, 1, << >>)
PosZero == MkV("float", 0, 1, << >>)
NegZero == MkV("float", 0, 1, <<"-">>)
OpaqueV(sign, r) == MkV("float", sign, 0, r)
FuncV(id) == MkV("func", 0, 1, <<id>>)
TupleV == MkV("tuple", 0, 1, << >>)
EllipsisV == MkV("ellipsis", 0, 1, << >>)

NoExc == [type |-> "none", msg |-> ""]
Exc(type, msg) == [type |-> type, msg |-> msg]

ROk(v) == [st |-> "ok", v |-> v, x |-> NoExc]
RExc(type, msg) == [st |-> "exc", v |-> NoVal, x |-> Exc(type, msg)]
ROom == [st |-> "oom", v |-> NoVal, x |-> NoExc]

IsNum(v) == v.k \in {"int", "float"}
IsOpaque(v) == v.k = "float" /\ v.d = 0
IsExact(v) == IsNum(v) /\ v.d # 0
IsZero(v) == IsExact(v) /\ v.n = 0
IsUnit(v) == IsExact(v) /\ v.d = 1 /\ (v.n = 1 \/ v.n = -1)
IsWhole(v) == IsExact(v) /\ v.d = 1
SignNeg(v) == v.n < 0 \/ v = NegZero

Abs(n) == IF n < 0 THEN -n ELSE n

RECURSIVE Gcd(_, _)
Gcd(a, b) == IF b = 0 THEN a ELSE Gcd(b, a % b)

RECURSIVE Pow2(_)
Pow2(k) == IF k = 0 THEN 1 ELSE 2 * Pow2(k - 1)

IsDyadicDen(d) == \E k \in 0..MaxFracBits : d = Pow2(k)

\* The float n / d (d # 0); a zero takes the sign negz says.
MkFloat(n, d, negz) ==
    IF n = 0 THEN ROk(IF negz THEN NegZero ELSE PosZero)
    ELSE LET g == Gcd(Abs(n), Abs(d))
             nn == Abs(n) \div g
             dd == Abs(d) \div g
         IN  IF nn <= MaxAbs /\ IsDyadicDen(dd)
             THEN ROk(MkV("float", IF (n < 0) # (d < 0) THEN -nn ELSE nn,
                          dd, << >>))
             ELSE ROom

IntR(n) == IF Abs(n) <= MaxAbs THEN ROk(IntV(n)) ELSE ROom

\* floor(a / b) for b # 0.
FloorDivInt(a, b) ==
    LET q == Abs(a) \div Abs(b) IN
    IF a = 0 \/ (a < 0) = (b < 0) THEN q
    ELSE IF Abs(a) % Abs(b) = 0 THEN -q ELSE -q - 1

\* b^e for b >= 2, stopping once it passes MaxAbs.
RECURSIVE PowUp(_, _, _)
PowUp(b, e, acc) ==
    IF e = 0 \/ acc > MaxAbs THEN acc ELSE PowUp(b, e - 1, acc * b)

\* |b|^e for e >= 0, or a number above MaxAbs.
PowAbs(b, e) ==
    IF e = 0 THEN 1
    ELSE IF Abs(b) <= 1 THEN Abs(b)
    ELSE PowUp(Abs(b), e, 1)

Opposite(v) ==
    IF v = PosZero THEN NegZero
    ELSE IF v = NegZero THEN PosZero
    ELSE [v EXCEPT !.n = -v.n]

ZeroDiv == RExc("ZeroDivisionError", "division by zero")
BadOperands == RExc("TypeError", "unsupported operand type(s)")

\* x ** y for exact x and a whole exponent e, as a float.
FloatPowWhole(x, e) ==
    IF e = 0 THEN MkFloat(1, 1, FALSE)
    ELSE IF x.n = 0 THEN
        IF e < 0 THEN ZeroDiv
        ELSE ROk(IF SignNeg(x) /\ Abs(e) % 2 = 1 THEN NegZero ELSE PosZero)
    ELSE LET pn == PowAbs(x.n, Abs(e))
             pd == PowAbs(x.d, Abs(e))
             s == IF x.n < 0 /\ Abs(e) % 2 = 1 THEN -1 ELSE 1
         IN  IF pn > MaxAbs \/ pd > MaxAbs THEN ROom
             ELSE IF e > 0 THEN MkFloat(s * pn, pd, FALSE)
             ELSE MkFloat(s * pd, pn, FALSE)

\* a ** b for numbers (int.__pow__, float.__pow__).
NumPow(a, b) ==
    IF a.k = "int" /\ b.k = "int" /\ b.n >= 0 THEN
        LET p == PowAbs(a.n, b.n) IN
        IF p > MaxAbs THEN ROom
        ELSE IntR(IF a.n < 0 /\ b.n % 2 = 1 THEN -p ELSE p)
    ELSE IF IsZero(b) THEN MkFloat(1, 1, FALSE)
    ELSE IF IsExact(a) /\ a.n = a.d THEN MkFloat(1, 1, FALSE)
    ELSE IF IsExact(a) /\ IsWhole(b) THEN FloatPowWhole(a, b.n)
    ELSE IF IsZero(a) THEN
        IF SignNeg(b) THEN ZeroDiv ELSE ROk(PosZero)
    ELSE IF IsOpaque(a) /\ IsExact(b) /\ b.n = 1 /\ b.d = 1 THEN ROk(a)
    ELSE ROom

\* a op b for numbers of which one at least is known only by its digits.
OpaqueBin(op, a, b) ==
    IF op = "*" /\ IsUnit(b) THEN ROk(IF b.n < 0 THEN Opposite(a) ELSE a)
    ELSE IF op = "*" /\ IsUnit(a) THEN ROk(IF a.n < 0 THEN Opposite(b) ELSE b)
    ELSE IF op \in {"/", "//"} /\ IsZero(b) THEN ZeroDiv
    ELSE IF op = "/" /\ IsUnit(b) THEN ROk(IF b.n < 0 THEN Opposite(a) ELSE a)
    ELSE IF op \in {"+", "-"} /\ IsZero(b) THEN ROk(a)
    ELSE IF op = "+" /\ IsZero(a) THEN ROk(b)
    ELSE IF op = "-" /\ IsZero(a) THEN ROk(Opposite(b))
    ELSE IF op = "**" THEN NumPow(a, b)
    ELSE ROom

\* a op b for exact numbers (int and float arithmetic, signed zeros kept).
ExactBin(op, a, b) ==
    LET ints == a.k = "int" /\ b.k = "int"
        differ == SignNeg(a) # SignNeg(b)
    IN
    IF op = "**" THEN NumPow(a, b)
    ELSE IF op \in {"/", "//"} /\ b.n = 0 THEN ZeroDiv
    ELSE IF op = "/" THEN MkFloat(a.n * b.d, a.d * b.n, differ)
    ELSE IF op = "//" THEN
        LET q == FloorDivInt(a.n * b.d, a.d * b.n) IN
        IF ints THEN IntR(q) ELSE MkFloat(q, 1, a.n = 0 /\ differ)
    ELSE IF ints THEN
        IntR(IF op = "+" THEN a.n + b.n
             ELSE IF op = "-" THEN a.n - b.n ELSE a.n * b.n)
    ELSE IF op = "+" THEN
        MkFloat(a.n * b.d + b.n * a.d, a.d * b.d, SignNeg(a) /\ SignNeg(b))
    ELSE IF op = "-" THEN
        MkFloat(a.n * b.d - b.n * a.d, a.d * b.d, SignNeg(a) /\ ~SignNeg(b))
    ELSE MkFloat(a.n * b.n, a.d * b.d, differ)

\* The binary operators, on any two objects.
BinOp(op, a, b) ==
    IF IsNum(a) /\ IsNum(b) THEN
        IF IsOpaque(a) \/ IsOpaque(b) THEN OpaqueBin(op, a, b)
        ELSE ExactBin(op, a, b)
    ELSE IF op = "+" /\ a.k = "tuple" /\ b.k = "tuple" THEN ROk(TupleV)
    ELSE IF op = "*" /\ ((a.k = "tuple" /\ b.k = "int")
                          \/ (a.k = "int" /\ b.k = "tuple")) THEN ROk(TupleV)
    ELSE BadOperands

\* Unary minus and plus.
UnaryOp(k, a) ==
    IF ~IsNum(a) THEN RExc("TypeError", "bad operand type for unary")
    ELSE IF k = "pos" \/ (a.k = "int" /\ a.n = 0) THEN ROk(a)
    ELSE ROk(Opposite(a))

(***************************************************************************)
(* str(): how _evaluate_expression renders a result into the buffer.       *)
(***************************************************************************)
DigitSeq == <<"0", "1", "2", "3", "4", "5", "6", "7", "8", "9">>

DigitVal(c) == CHOOSE k \in 0..9 : DigitSeq[k + 1] = c

RECURSIVE StrNat(_)
StrNat(n) ==
    IF n < 10 THEN <<DigitSeq[n + 1]>>
    ELSE StrNat(n \div 10) \o <<DigitSeq[(n % 10) + 1]>>

\* The decimal digits of rem / d, a fraction below one with d a power of two.
RECURSIVE FracDigits(_, _)
FracDigits(rem, d) ==
    IF rem = 0 THEN << >>
    ELSE <<DigitSeq[((rem * 10) \div d) + 1]>> \o FracDigits((rem * 10) % d, d)

\* repr() of a float: the exact digits of n / d, which are the shortest
\* that read back as the same float; a float known by its digits prints them.
StrFloat(v) ==
    LET sign == IF SignNeg(v) THEN <<"-">> ELSE << >> IN
    IF IsOpaque(v) THEN sign \o v.r
    ELSE LET frac == FracDigits(Abs(v.n) % v.d, v.d) IN
         sign \o StrNat(Abs(v.n) \div v.d) \o <<".">>
              \o (IF frac = << >> THEN <<"0">> ELSE frac)

BuiltinPrefix ==
    <<"<", "b", "u", "i", "l", "t", "-", "i", "n", " ",
      "f", "u", "n", "c", "t", "i", "o", "n", " ">>

ClosurePrefix ==
    <<"<", "f", "u", "n", "c", "t", "i", "o", "n", " ",
      "C", "a", "l", "c", "u", "l", "a", "t", "o", "r",
      "A", "p", "p", "l", "i", "c", "a", "t", "i", "o", "n", ".",
      "_", "b", "u", "i", "l", "d", "_", "s", "a", "f", "e", "_",
      "e", "n", "v", "i", "r", "o", "n", "m", "e", "n", "t", ".",
      "<", "l", "o", "c", "a", "l", "s", ">", ".">>

\* The names of the table and of its functions, as text.
Spell ==
    [pi |-> <<"p", "i">>,
     e |-> <<"e">>,
     sqrt |-> <<"s", "q", "r", "t">>,
     log |-> <<"l", "o", "g">>,
     log10 |-> <<"l", "o", "g", "1", "0">>,
     factorial |-> <<"f", "a", "c", "t", "o", "r", "i", "a", "l">>,
     radians |-> <<"r", "a", "d", "i", "a", "n", "s">>,
     degrees |-> <<"d", "e", "g", "r", "e", "e", "s">>,
     sin |-> <<"s", "i", "n">>,
     cos |-> <<"c", "o", "s">>,
     tan |-> <<"t", "a", "n">>,
     sin_deg |-> <<"s", "i", "n", "_", "d", "e", "g">>,
     cos_deg |-> <<"c", "o", "s", "_", "d", "e", "g">>,
     tan_deg |-> <<"t", "a", "n", "_", "d", "e", "g">>]

Closures == {"sin_deg", "cos_deg", "tan_deg"}

\* The addresses a closure made by one call of _build_safe_environment can
\* be printed with: where the allocator puts it is not fixed by the program.
Addresses ==
    {<<"7", "f", "6", "4", "b", "f", "e", "e", "d", "9", "e", "0">>,
     <<"7", "f", "6", "4", "b", "f", "e", "e", "d", "6", "c", "0">>}

\* str(result), for a result whose closure, if it is one, sits at addr.
Str(v, addr) ==
    IF v.k = "int" THEN
        (IF v.n < 0 THEN <<"-">> ELSE << >>) \o StrNat(Abs(v.n))
    ELSE IF v.k = "float" THEN StrFloat(v)
    ELSE IF v.k = "tuple" THEN <<"(", ")">>
    ELSE IF v.k = "ellipsis" THEN <<"E", "l", "l", "i", "p", "s", "i", "s">>
    ELSE IF v.r[1] \in Closures THEN
        ClosurePrefix \o Spell[v.r[1]]
            \o <<" ", "a", "t", " ", "0", "x">> \o addr \o <<">">>
    ELSE BuiltinPrefix \o Spell[v.r[1]] \o <<">">>

(***************************************************************************)
(* The math module (calculator.py:6-8): the values of its functions this   *)
(* model knows, as <<function, repr(argument), repr(result)>>, and the     *)
(* digits of its constants.                                                *)
(***************************************************************************)
MathTable == {
    <<"radians", <<"1", ".", "0">>,
        <<"0", ".", "0", "1", "7", "4", "5", "3", "2", "9", "2", "5", "1", "9", "9", "4", "3", "2", "9", "5">>>>,
    <<"sin", <<"1", ".", "0">>,
        <<"0", ".", "8", "4", "1", "4", "7", "0", "9", "8", "4", "8", "0", "7", "8", "9", "6", "5">>>>,
    <<"sin", <<"0", ".", "0", "1", "7", "4", "5", "3", "2", "9", "2", "5", "1", "9", "9", "4", "3", "2", "9", "5">>,
        <<"0", ".", "0", "1", "7", "4", "5", "2", "4", "0", "6", "4", "3", "7", "2", "8", "3", "5", "1">>>>,
    <<"cos", <<"1", ".", "0">>,
        <<"0", ".", "5", "4", "0", "3", "0", "2", "3", "0", "5", "8", "6", "8", "1", "3", "9", "8">>>>,
    <<"cos", <<"0", ".", "0", "1", "7", "4", "5", "3", "2", "9", "2", "5", "1", "9", "9", "4", "3", "2", "9", "5">>,
        <<"0", ".", "9", "9", "9", "8", "4", "7", "6", "9", "5", "1", "5", "6", "3", "9", "1", "3">>>>,
    <<"tan", <<"1", ".", "0">>,
        <<"1", ".", "5", "5", "7", "4", "0", "7", "7", "2", "4", "6", "5", "4", "9", "0", "2", "3">>>>,
    <<"tan", <<"0", ".", "0", "1", "7", "4", "5", "3", "2", "9", "2", "5", "1", "9", "9", "4", "3", "2", "9", "5">>,
        <<"0", ".", "0", "1", "7", "4", "5", "5", "0", "6", "4", "9", "2", "8", "2", "1", "7", "5", "8", "5">>>>,
    <<"sqrt", <<"1", ".", "0">>,
        <<"1", ".", "0">>>>,
    <<"log", <<"1", ".", "0">>,
        <<"0", ".", "0">>>>,
    <<"radians", <<"2", ".", "0">>,
        <<"0", ".", "0", "3", "4", "9", "0", "6", "5", "8", "5", "0", "3", "9", "8", "8", "6", "5", "9">>>>,
    <<"sin", <<"2", ".", "0">>,
        <<"0", ".", "9", "0", "9", "2", "9", "7", "4", "2", "6", "8", "2", "5", "6", "8", "1", "7">>>>,
    <<"sin", <<"0", ".", "0", "3", "4", "9", "0", "6", "5", "8", "5", "0", "3", "9", "8", "8", "6", "5", "9">>,
        <<"0", ".", "0", "3", "4", "8", "9", "9", "4", "9", "6", "7", "0", "2", "5", "0", "0", "9", "7">>>>,
    <<"cos", <<"2", ".", "0">>,
        <<"-", "0", ".", "4", "1", "6", "1", "4", "6", "8", "3", "6", "5", "4", "7", "1", "4", "2", "4">>>>,
    <<"cos", <<"0", ".", "0", "3", "4", "9", "0", "6", "5", "8", "5", "0", "3", "9", "8", "8", "6", "5", "9">>,
        <<"0", ".", "9", "9", "9", "3", "9", "0", "8", "2", "7", "0", "1", "9", "0", "9", "5", "8">>>>,
    <<"tan", <<"2", ".", "0">>,
        <<"-", "2", ".", "1", "8", "5", "0", "3", "9", "8", "6", "3", "2", "6", "1", "5", "1", "9">>>>,
    <<"tan", <<"0", ".", "0", "3", "4", "9", "0", "6", "5", "8", "5", "0", "3", "9", "8", "8", "6", "5", "9">>,
        <<"0", ".", "0", "3", "4", "9", "2", "0", "7", "6", "9", "4", "9", "1", "7", "4", "7", "7", "3">>>>,
    <<"sqrt", <<"2", ".", "0">>,
        <<"1", ".", "4", "1", "4", "2", "1", "3", "5", "6", "2", "3", "7", "3", "0", "9", "5", "1">>>>,
    <<"log", <<"2", ".", "0">>,
        <<"0", ".", "6", "9", "3", "1", "4", "7", "1", "8", "0", "5", "5", "9", "9", "4", "5", "3">>>>,
    <<"radians", <<"3", ".", "1", "4", "1", "5", "9", "2", "6", "5", "3", "5", "8", "9", "7", "9", "3">>,
        <<"0", ".", "0", "5", "4", "8", "3", "1", "1", "3", "5", "5", "6", "1", "6", "0", "7", "5", "5">>>>,
    <<"sin", <<"3", ".", "1", "4", "1", "5", "9", "2", "6", "5", "3", "5", "8", "9", "7", "9", "3">>,
        <<"1", ".", "2", "2", "4", "6", "4", "6", "7", "9", "9", "1", "4", "7", "3", "5", "3", "2", "e", "-", "1", "6">>>>,
    <<"sin", <<"0", ".", "0", "5", "4", "8", "3", "1", "1", "3", "5", "5", "6", "1", "6", "0", "7", "5", "5">>,
        <<"0", ".", "0", "5", "4", "8", "0", "3", "6", "6", "5", "1", "4", "8", "7", "8", "9", "5", "3">>>>,
    <<"cos", <<"3", ".", "1", "4", "1", "5", "9", "2", "6", "5", "3", "5", "8", "9", "7", "9", "3">>,
        <<"-", "1", ".", "0">>>>,
    <<"cos", <<"0", ".", "0", "5", "4", "8", "3", "1", "1", "3", "5", "5", "6", "1", "6", "0", "7", "5", "5">>,
        <<"0", ".", "9", "9", "8", "4", "9", "7", "1", "4", "9", "8", "6", "3", "8", "6", "3", "8">>>>,
    <<"tan", <<"3", ".", "1", "4", "1", "5", "9", "2", "6", "5", "3", "5", "8", "9", "7", "9", "3">>,
        <<"-", "1", ".", "2", "2", "4", "6", "4", "6", "7", "9", "9", "1", "4", "7", "3", "5", "3", "2", "e", "-", "1", "6">>>>,
    <<"tan", <<"0", ".", "0", "5", "4", "8", "3", "1", "1", "3", "5", "5", "6", "1", "6", "0", "7", "5", "5">>,
        <<"0", ".", "0", "5", "4", "8", "8", "6", "1", "5", "0", "8", "0", "8", "0", "0", "3", "3", "3">>>>,
    <<"sqrt", <<"3", ".", "1", "4", "1", "5", "9", "2", "6", "5", "3", "5", "8", "9", "7", "9", "3">>,
        <<"1", ".", "7", "7", "2", "4", "5", "3", "8", "5", "0", "9", "0", "5", "5", "1", "5", "9">>>>,
    <<"log", <<"3", ".", "1", "4", "1", "5", "9", "2", "6", "5", "3", "5", "8", "9", "7", "9", "3">>,
        <<"1", ".", "1", "4", "4", "7", "2", "9", "8", "8", "5", "8", "4", "9", "4", "0", "0", "2">>>>,
    <<"radians", <<"2", ".", "7", "1", "8", "2", "8", "1", "8", "2", "8", "4", "5", "9", "0", "4", "5">>,
        <<"0", ".", "0", "4", "7", "4", "4", "2", "9", "6", "7", "9", "0", "3", "7", "4", "2", "0", "3", "5">>>>,
    <<"sin", <<"2", ".", "7", "1", "8", "2", "8", "1", "8", "2", "8", "4", "5", "9", "0", "4", "5">>,
        <<"0", ".", "4", "1", "0", "7", "8", "1", "2", "9", "0", "5", "0", "2", "9", "0", "8", "8", "5">>>>,
    <<"sin", <<"0", ".", "0", "4", "7", "4", "4", "2", "9", "6", "7", "9", "0", "3", "7", "4", "2", "0", "3", "5">>,
        <<"0", ".", "0", "4", "7", "4", "2", "5", "1", "7", "2", "1", "8", "9", "5", "6", "8", "2", "6", "5">>>>,
    <<"cos", <<"2", ".", "7", "1", "8", "2", "8", "1", "8", "2", "8", "4", "5", "9", "0", "4", "5">>,
        <<"-", "0", ".", "9", "1", "1", "7", "3", "3", "9", "1", "4", "7", "8", "6", "9", "6", "5", "1">>>>,
    <<"cos", <<"0", ".", "0", "4", "7", "4", "4", "2", "9", "6", "7", "9", "0", "3", "7", "4", "2", "0", "3", "5">>,
        <<"0", ".", "9", "9", "8", "8", "7", "4", "7", "9", "3", "4", "7", "6", "5", "3", "4", "6">>>>,
    <<"tan", <<"2", ".", "7", "1", "8", "2", "8", "1", "8", "2", "8", "4", "5", "9", "0", "4", "5">>,
        <<"-", "0", ".", "4", "5", "0", "5", "4", "9", "5", "3", "4", "0", "6", "9", "8", "0", "7", "7">>>>,
    <<"tan", <<"0", ".", "0", "4", "7", "4", "4", "2", "9", "6", "7", "9", "0", "3", "7", "4", "2", "0", "3", "5">>,
        <<"0", ".", "0", "4", "7", "4", "7", "8", "5", "9", "5", "4", "1", "4", "8", "5", "4", "0", "3">>>>,
    <<"sqrt", <<"2", ".", "7", "1", "8", "2", "8", "1", "8", "2", "8", "4", "5", "9", "0", "4", "5">>,
        <<"1", ".", "6", "4", "8", "7", "2", "1", "2", "7", "0", "7", "0", "0", "1", "2", "8", "2">>>>,
    <<"log", <<"2", ".", "7", "1", "8", "2", "8", "1", "8", "2", "8", "4", "5", "9", "0", "4", "5">>,
        <<"1", ".", "0">>>>}

PiDigits == <<"3", ".", "1", "4", "1", "5", "9", "2", "6", "5", "3", "5", "8", "9", "7", "9", "3">>

EDigits == <<"2", ".", "7", "1", "8", "2", "8", "1", "8", "2", "8", "4", "5", "9", "0", "4", "5">>

Magnitude(r) == IF r # << >> /\ r[1] = "-" THEN Tail(r) ELSE r

\* The digit strings that are known to be the repr() of a float.
KnownReprs == {Magnitude(t[3]) : t \in MathTable} \cup {PiDigits, EDigits}

(***************************************************************************)
(* eval(), part 4: the value of a number literal.                          *)
(***************************************************************************)
\* The number the digits s[i..] spell, or one above MaxAbs.
RECURSIVE DigitsVal(_, _, _)
DigitsVal(s, i, acc) ==
    IF i > Len(s) \/ acc > MaxAbs THEN acc
    ELSE DigitsVal(s, i + 1, acc * 10 + DigitVal(s[i]))

RECURSIVE StripLeadingZeros(_)
StripLeadingZeros(s) ==
    IF Len(s) > 1 /\ s[1] = "0" THEN StripLeadingZeros(Tail(s)) ELSE s

RECURSIVE StripTrailingZeros(_)
StripTrailingZeros(s) ==
    IF s # << >> /\ s[Len(s)] = "0"
    THEN StripTrailingZeros(SubSeq(s, 1, Len(s) - 1)) ELSE s

RECURSIVE Pow10(_)
Pow10(k) == IF k = 0 THEN 1 ELSE 10 * Pow10(k - 1)

\* The text of a literal without exponent, and whether it is plain: up to
\* 15 digits, not tiny, read back as they are written, so that the digits
\* are the repr().
DecimalText(w, f) ==
    [text |-> w \o <<".">> \o f,
     plain |-> /\ Len(w) + Len(f) <= 15
               /\ ~(w = <<"0">> /\ Len(f) >= 5 /\ \A i \in 1..4 : f[i] = "0")]

\* The float of a literal that is no small exact fraction: it is known by
\* its digits where they are plain or are digits that repr() printed.
DecimalFloat(d) ==
    IF d.plain \/ d.text \in KnownReprs THEN ROk(OpaqueV(1, d.text)) ELSE ROom

\* mant * 10^(-scale), where that is a float of this model.
ExactFloat(mant, e, scale) ==
    IF mant = 0 THEN ROk(PosZero)
    ELSE IF mant > MaxAbs \/ e > 8 \/ scale > 8 \/ scale < -5 THEN ROom
    ELSE IF scale <= 0 THEN
        (IF mant * Pow10(-scale) > MaxAbs THEN ROom
         ELSE MkFloat(mant * Pow10(-scale), 1, FALSE))
    ELSE MkFloat(mant, Pow10(scale), FALSE)

\* The parts of the literal lit whose whole part ends before p1 and whose
\* fraction ends before p2: the exponent, if any, starts at p2.
FloatParts(lit, p1, p2) ==
    [whole |-> SubSeq(lit, 1, p1 - 1),
     frac |-> StripTrailingZeros(SubSeq(lit, p1 + 1, p2 - 1)),
     hasExp |-> p2 <= Len(lit),
     expNeg |-> p2 <= Len(lit) /\ lit[p2 + 1] = "-",
     e |-> IF p2 <= Len(lit)
           THEN DigitsVal(lit, IF lit[p2 + 1] \in {"+", "-"}
                               THEN p2 + 2 ELSE p2 + 1, 0)
           ELSE 0]

FloatOr(lit, f, exact) ==
    IF exact.st = "ok" THEN exact
    ELSE DecimalFloat(
            IF f.hasExp THEN [text |-> lit, plain |-> FALSE]
            ELSE DecimalText(
                    StripLeadingZeros(IF f.whole = << >> THEN <<"0">>
                                      ELSE f.whole),
                    IF f.frac = << >> THEN <<"0">> ELSE f.frac))

FloatOf(lit, f) ==
    FloatOr(lit, f,
            ExactFloat(DigitsVal(f.whole \o f.frac, 1, 0), f.e,
                       Len(f.frac) + (IF f.expNeg THEN f.e ELSE -f.e)))

FloatFrom(lit, p1) ==
    FloatOf(lit, FloatParts(lit, p1,
                            IF At(lit, p1) = "."
                            THEN RunEnd(lit, p1 + 1, DigitChars) ELSE p1))

FloatLiteral(lit) == FloatFrom(lit, RunEnd(lit, 1, DigitChars))

NumberValue(lit) ==
    IF IsFloatLiteral(lit) THEN FloatLiteral(lit)
    ELSE IntR(DigitsVal(lit, 1, 0))

(***************************************************************************)
(* _build_safe_environment (calculator.py:159-185).                        *)
(***************************************************************************)
\* A table whose trigonometric functions ignore the mode.
trig_map_plain(degree_mode) ==
    [sin |-> FuncV("sin"), cos |-> FuncV("cos"), tan |-> FuncV("tan")]

trig_map(degree_mode) ==
    IF degree_mode
    THEN [sin |-> FuncV("sin_deg"), cos |-> FuncV("cos_deg"),
          tan |-> FuncV("tan_deg")]
    ELSE [sin |-> FuncV("sin"), cos |-> FuncV("cos"), tan |-> FuncV("tan")]

_build_safe_environment(degree_mode) ==
    trig_map(degree_mode) @@
    [sqrt |-> FuncV("sqrt"),
     log |-> FuncV("log"),
     log10 |-> FuncV("log10"),
     factorial |-> FuncV("factorial"),
     pi |-> OpaqueV(1, PiDigits),
     e |-> OpaqueV(1, EDigits),
     radians |-> FuncV("radians"),
     degrees |-> FuncV("degrees")]

\* No table: the value of safe_env outside an evaluation.
NoEnv == [k \in {} |-> NoVal]

(***************************************************************************)
(* eval(), part 5: evaluation of the tree against the table, with          *)
(* {"__builtins__": None} as globals.                                      *)
(***************************************************************************)
\* A name is looked up in the table, then in the globals, then in the
\* builtins, which are None: subscripting None raises TypeError.
Lookup(env, name) ==
    LET keys == {k \in DOMAIN env : Spell[k] = name} IN
    IF keys # {} THEN ROk(env[CHOOSE k \in keys : TRUE])
    ELSE RExc("TypeError", "'NoneType' object is not subscriptable")

\* The attributes of numbers that a text of letters could name.
NumberAttrs ==
    {<<"r", "e", "a", "l">>, <<"i", "m", "a", "g">>, <<"h", "e", "x">>,
     <<"c", "o", "n", "j", "u", "g", "a", "t", "e">>,
     <<"f", "r", "o", "m", "h", "e", "x">>,
     <<"n", "u", "m", "e", "r", "a", "t", "o", "r">>,
     <<"d", "e", "n", "o", "m", "i", "n", "a", "t", "o", "r">>}

TupleAttrs == {<<"c", "o", "u", "n", "t">>, <<"i", "n", "d", "e", "x">>}

\* getattr(v, name).  real and imag of a number are numbers; the other
\* attributes that exist are methods, which this model does not represent.
GetAttr(v, name) ==
    IF IsNum(v) /\ name = <<"r", "e", "a", "l">> THEN ROk(v)
    ELSE IF IsNum(v) /\ name = <<"i", "m", "a", "g">> THEN
        ROk(IF v.k = "int" THEN IntV(0) ELSE PosZero)
    ELSE IF \/ \E i \in 1..Len(name) : name[i] = "_"
            \/ (IsNum(v) /\ name \in NumberAttrs)
            \/ (v.k = "tuple" /\ name \in TupleAttrs) THEN ROom
    ELSE RExc("AttributeError", "object has no attribute")

RECURSIVE ISqrtUp(_, _)
ISqrtUp(n, r) == IF r * r >= n THEN r ELSE ISqrtUp(n, r + 1)

IsSquare(n) == ISqrtUp(n, 0) * ISqrtUp(n, 0) = n

RECURSIVE Factorial(_, _)
Factorial(n, acc) ==
    IF n <= 1 \/ acc > MaxAbs THEN acc ELSE Factorial(n - 1, acc * n)

\* The float a math function converts its argument to, printed.
ArgKey(x) == StrFloat([x EXCEPT !.k = "float"])

Signed(negative, m) ==
    IF m.st = "ok" /\ negative THEN ROk(Opposite(m.v)) ELSE m

\* A repr() of the table as a value.
ReprValue(r) == Signed(r[1] = "-", NumberValue(Magnitude(r)))

\* The result the rows hits of the table give, if there is one.
Found(hits) ==
    IF hits # {} THEN ReprValue((CHOOSE t \in hits : TRUE)[3]) ELSE ROom

\* The result the table has for fn at the argument that prints as key.
Tabulated(fn, key) == Found({t \in MathTable : t[1] = fn /\ t[2] = key})

SignedZero(x) == IF SignNeg(x) THEN NegZero ELSE PosZero

DomainError == RExc("ValueError", "math domain error")

\* A function of the math module applied to one argument.
MathCall(fn, x) ==
    IF ~IsNum(x) THEN
        IF fn = "factorial"
        THEN RExc("TypeError", "object cannot be interpreted as an integer")
        ELSE RExc("TypeError", "must be real number")
    ELSE IF fn = "factorial" THEN
        \* what factorial does with a float differs between Python versions
        IF x.k = "float" THEN ROom
        ELSE IF x.n < 0
        THEN RExc("ValueError", "factorial() not defined for negative values")
        ELSE (IF x.n > MaxAbs THEN ROom ELSE IntR(Factorial(x.n, 1)))
    ELSE IF fn = "sqrt" /\ SignNeg(x) /\ ~IsZero(x) THEN DomainError
    ELSE IF fn \in {"log", "log10"} /\ (SignNeg(x) \/ IsZero(x)) THEN DomainError
    ELSE IF IsZero(x) THEN
        ROk(IF fn = "cos" THEN MkV("float", 1, 1, << >>) ELSE SignedZero(x))
    ELSE IF fn \in {"log", "log10"} /\ IsExact(x) /\ x.n = x.d THEN ROk(PosZero)
    ELSE IF fn = "sqrt" /\ IsExact(x) /\ IsSquare(x.n) /\ IsSquare(x.d) THEN
        MkFloat(ISqrtUp(x.n, 0), ISqrtUp(x.d, 0), FALSE)
    ELSE Tabulated(fn, ArgKey(x))

\* The function of the math module that a closure of calculator.py:161-168
\* applies to radians(x).
Inner == [sin_deg |-> "sin", cos_deg |-> "cos", tan_deg |-> "tan"]

\* A function object called with one argument.
RECURSIVE Apply(_, _)
Apply(fn, x) ==
    IF fn \in Closures THEN
        LET r == Apply("radians", x) IN
        IF r.st # "ok" THEN r ELSE Apply(Inner[fn], r.v)
    ELSE MathCall(fn, x)

NotCallable == RExc("TypeError", "object is not callable")

\* f(a), f(*a) and f(**a).
Call(kind, f, a) ==
    IF kind = "calldstar"
    THEN RExc("TypeError", "argument after ** must be a mapping")
    ELSE IF kind = "callstar" /\ a.k # "tuple"
    THEN RExc("TypeError", "argument after * must be an iterable")
    ELSE IF f.k # "func" THEN NotCallable
    ELSE IF kind = "call1" THEN Apply(f.r[1], a)
    ELSE RExc("TypeError", "takes exactly one argument (0 given)")

\* f().
Call0(f) ==
    IF f.k # "func" THEN NotCallable
    ELSE RExc("TypeError", "takes exactly one argument (0 given)")

\* The outcome of evaluating the subtree at i: [st, v, x] as above, pos the
\* index after the subtree, ops the operations dispatched to on the way.
Out(r, pos, ops) ==
    [st |-> r.st, v |-> r.v, x |-> r.x, pos |-> pos, ops |-> ops]

RECURSIVE EvalAt(_, _, _)
EvalAt(ast, i, env) ==
    LET nd == ast[i] IN
    IF nd.k = "num" THEN Out(NumberValue(nd.v), i + 1, {"num"})
    ELSE IF nd.k = "name" THEN Out(Lookup(env, nd.v), i + 1, {"name"})
    ELSE IF nd.k = "tuple" THEN Out(ROk(TupleV), i + 1, {"tuple"})
    ELSE IF nd.k = "ellipsis" THEN Out(ROk(EllipsisV), i + 1, {"ellipsis"})
    ELSE LET a == EvalAt(ast, i + 1, env) IN
      IF a.st # "ok" THEN a
      ELSE IF nd.k \in {"neg", "pos"} THEN
        Out(UnaryOp(nd.k, a.v), a.pos, a.ops \cup {nd.k})
      ELSE IF nd.k = "attr" THEN
        Out(GetAttr(a.v, nd.v), a.pos, a.ops \cup {"attr"})
      ELSE IF nd.k = "call0" THEN
        Out(Call0(a.v), a.pos, a.ops \cup {"call"})
      ELSE LET b == EvalAt(ast, a.pos, env) IN
        IF b.st # "ok" THEN [b EXCEPT !.ops = a.ops \cup b.ops]
        ELSE IF nd.k = "bin" THEN
          Out(BinOp(nd.v[1], a.v, b.v), b.pos, a.ops \cup b.ops \cup {nd.v[1]})
        ELSE Out(Call(nd.k, a.v, b.v), b.pos,
                 a.ops \cup b.ops \cup
                 (IF nd.k = "call1" THEN {"call"} ELSE {"call", nd.k}))

\* str.replace(old, new) for a one-character old.
RECURSIVE Replace(_, _, _)
Replace(s, old, new) ==
    IF s = << >> THEN << >>
    ELSE (IF Head(s) = old THEN new ELSE <<Head(s)>>)
            \o Replace(Tail(s), old, new)

\* A normalization without the second replacement.
NormalizeRootOnly(raw_expr) ==
    Replace(raw_expr, "u221A", <<"s", "q", "r", "t">>)

\* calculator.py:147-148.
Normalize(raw_expr) ==
    Replace(Replace(raw_expr, "u221A", <<"s", "q", "r", "t">>),
            "^", <<"*", "*">>)

\* The value of the text source with the tokens toks and the tree p.  A
\* text that begins with "<", as the rendering of a function does, is no
\* expression whatever follows.
EvalTree(source, env, toks, p) ==
    IF \/ At(source, RunEnd(source, 1, {" "})) = "<"
       \/ (~p.ok /\ \A i \in 1..Len(toks) : toks[i].t # "unk")
    THEN Out(RExc("SyntaxError", "invalid syntax"), 0, {})
    ELSE IF ~p.ok THEN Out(ROom, 0, {})
    ELSE EvalAt(p.ast, 1, env)

EvalTokens(source, env, toks) == EvalTree(source, env, toks, ParseTokens(toks))

\* eval(expr, {"__builtins__": None}, safe_env) (calculator.py:152).
Eval(source, env) == EvalTokens(source, env, Tokenize(source))

(***************************************************************************)
(* The handlers of CalculatorApplication.  A handler is an action on every *)
(* variable but ev, which the event that runs the handler sets.            *)
(***************************************************************************)
\* What a handler that does not reach eval() leaves of the last evaluation.
NoEvaluation ==
    /\ dialogs' = << >>
    /\ caught' = NoExc
    /\ escaped' = FALSE
    /\ dispatched' = {}
    /\ safe_env' = NoEnv
    /\ expr' = << >>
    /\ UNCHANGED <<memo, tree>>

\* calculator.py:126-127.
_insert_text(text) ==
    /\ n_grow < MaxGrow
    /\ Len(input_text) <= MaxGrowLen
    /\ input_text' = input_text \o text
    /\ n_grow' = n_grow + 1
    /\ UNCHANGED is_degree_mode
    /\ NoEvaluation

\* calculator.py:129-130.
_clear_input ==
    /\ input_text' = << >>
    /\ UNCHANGED <<is_degree_mode, n_grow>>
    /\ NoEvaluation

\* calculator.py:132-134: current[:-1].
_handle_backspace ==
    LET current == input_text IN
    /\ input_text' = SubSeq(current, 1, Len(current) - 1)
    /\ UNCHANGED <<is_degree_mode, n_grow>>
    /\ NoEvaluation

\* calculator.py:136-140.
_toggle_sign ==
    /\ n_grow < MaxGrow
    /\ Len(input_text) <= MaxGrowLen
    /\ input_text' =
          IF input_text = << >> THEN input_text
          ELSE <<"(", "-", "1", ")", "*", "(">> \o input_text \o <<")">>
    /\ n_grow' = n_grow + 1
    /\ UNCHANGED is_degree_mode
    /\ NoEvaluation

\* An except clause that catches less than Exception does.
ExceptionClassesNarrow == {"SyntaxError", "ValueError", "ZeroDivisionError"}

\* The exceptions eval() raises here that are instances of Exception
\* (calculator.py:156): all of them.
ExceptionClasses ==
    {"SyntaxError", "TypeError", "ValueError", "AttributeError",
     "ZeroDivisionError", "OverflowError"}

Dialog(title, message) == [title |-> title, message |-> message]

\* Handlers that give the failure of a name lookup a title of its own.
ErrorDialogByKind(x) ==
    IF x.type = "ZeroDivisionError"
    THEN Dialog("Math Error", "Division by zero is undefined.")
    ELSE IF x.type = "TypeError" THEN Dialog("Unknown Symbol", x.msg)
    ELSE Dialog("Error", x.msg)

\* calculator.py:154-157: the dialog the except clauses show for x.  The
\* message of the second is the text of the exception, kept here in short.
ErrorDialog(x) ==
    IF x.type = "ZeroDivisionError"
    THEN Dialog("Math Error", "Division by zero is undefined.")
    ELSE Dialog("Error", x.msg)

\* The addresses str() can print a result with.
AddressesOf(v) ==
    IF v.k = "func" /\ v.r[1] \in Closures THEN Addresses
    ELSE {CHOOSE a \in Addresses : TRUE}

NoMemo ==
    [on |-> FALSE, set |-> FALSE, text |-> << >>, mode |-> TRUE,
     after |-> << >>, shown |-> << >>]

\* calculator.py:151-157: what follows eval() of expr in the table env,
\* with the outcome out.  The step is not taken where the outcome lies
\* outside the values of this model.
Conclude(raw_expr, replaced, env, out) ==
    /\ out.st # "oom"
    /\ expr' = replaced
    /\ safe_env' = env
    /\ dispatched' = out.ops
    /\ UNCHANGED <<is_degree_mode, n_grow, tree>>
    /\ IF out.st = "ok" THEN
          /\ \E addr \in AddressesOf(out.v) : input_text' = Str(out.v, addr)
          /\ dialogs' = << >>
          /\ caught' = NoExc
          /\ escaped' = FALSE
       ELSE IF out.x.type \in ExceptionClasses THEN
          /\ dialogs' = <<ErrorDialog(out.x)>>
          /\ caught' = out.x
          /\ escaped' = FALSE
          /\ UNCHANGED input_text
       ELSE
          /\ dialogs' = << >>
          /\ caught' = NoExc
          /\ escaped' = TRUE
          /\ UNCHANGED input_text
    /\ memo' = IF memo.on
               THEN [on |-> TRUE, set |-> TRUE, text |-> raw_expr,
                     mode |-> is_degree_mode, after |-> input_text',
                     shown |-> dialogs']
               ELSE memo

\* calculator.py:147-152.
Evaluate(raw_expr, replaced, env) ==
    Conclude(raw_expr, replaced, env, Eval(replaced, env))

\* calculator.py:142-157.
_evaluate_expression ==
    IF IsBlank(input_text) THEN
        /\ UNCHANGED <<input_text, is_degree_mode, n_grow>>
        /\ NoEvaluation
    ELSE Evaluate(input_text, Normalize(input_text),
                  _build_safe_environment(is_degree_mode))

\* calculator.py:56-63.
button_layout ==
    <<<<"C", "u232B", "(", ")", "u00F7">>,
      <<"7", "8", "9", "u00D7", "u221A">>,
      <<"4", "5", "6", "-", "xu00B2">>,
      <<"1", "2", "3", "+", "u00B1">>,
      <<"0", ".", "u03C0", "e", "=">>,
      <<"sin", "cos", "tan", "log", "ln">>>>

Labels ==
    {button_layout[r][c] : r \in 1..Len(button_layout), c \in 1..5}

\* A button grid whose ln button inserts its own label.
_on_button_press_ln(label) ==
    IF label = "C" THEN _clear_input
    ELSE IF label = "u232B" THEN _handle_backspace
    ELSE IF label = "=" THEN _evaluate_expression
    ELSE IF label = "u221A" THEN _insert_text(<<"s", "q", "r", "t", "(">>)
    ELSE IF label = "xu00B2" THEN _insert_text(<<"*", "*", "2">>)
    ELSE IF label = "u00B1" THEN _toggle_sign
    ELSE IF label = "u00F7" THEN _insert_text(<<"/">>)
    ELSE IF label = "u00D7" THEN _insert_text(<<"*">>)
    ELSE IF label = "u03C0" THEN _insert_text(<<"p", "i">>)
    ELSE IF label = "e" THEN _insert_text(<<"e">>)
    ELSE IF label \in {"sin", "cos", "tan", "log"} THEN
        _insert_text(Spell[label] \o <<"(">>)
    ELSE IF label = "ln" THEN _insert_text(<<"l", "n", "(">>)
    ELSE _insert_text(<<label>>)

\* calculator.py:89-115.
_on_button_press(label) ==
    IF label = "C" THEN _clear_input
    ELSE IF label = "u232B" THEN _handle_backspace
    ELSE IF label = "=" THEN _evaluate_expression
    ELSE IF label = "u221A" THEN _insert_text(<<"s", "q", "r", "t", "(">>)
    ELSE IF label = "xu00B2" THEN _insert_text(<<"*", "*", "2">>)
    ELSE IF label = "u00B1" THEN _toggle_sign
    ELSE IF label = "u00F7" THEN _insert_text(<<"/">>)
    ELSE IF label = "u00D7" THEN _insert_text(<<"*">>)
    ELSE IF label = "u03C0" THEN _insert_text(<<"p", "i">>)
    ELSE IF label = "e" THEN _insert_text(<<"e">>)
    ELSE IF label \in {"sin", "cos", "tan", "log", "ln"} THEN
        LET func_name == IF label = "ln" THEN "log" ELSE label
        IN  _insert_text(Spell[func_name] \o <<"(">>)
    ELSE _insert_text(<<label>>)

\* calculator.py:118.
allowed_chars ==
    <<"0", "1", "2", "3", "4", "5", "6", "7", "8", "9",
      ".", "+", "-", "*", "/", "(", ")", "^">>

\* calculator.py:117-124.  event.char is one character, or empty for a key
\* that produces none; "in" is the substring test, which the empty text
\* passes.
_handle_text_key(char) ==
    IF char = "" \/ \E i \in 1..Len(allowed_chars) : allowed_chars[i] = char
    THEN _insert_text(IF char = "" THEN << >> ELSE <<char>>)
    ELSE /\ UNCHANGED <<input_text, is_degree_mode, n_grow>>
         /\ NoEvaluation

(***************************************************************************)
(* The events.                                                             *)
(***************************************************************************)
Event(src, arg) == [src |-> src, arg |-> arg]

\* A button of the grid is pressed (calculator.py:76).
Button(label) ==
    /\ _on_button_press(label)
    /\ ev' = Event("button", label)

\* A key that has no binding of its own is pressed (calculator.py:87).
Key(char) ==
    /\ _handle_text_key(char)
    /\ ev' = Event("key", char)

BoundKeys == {"Return", "KP_Enter", "BackSpace", "Escape"}

\* A key with a binding of its own is pressed (calculator.py:83-86).
Bind(key) ==
    /\ IF key \in {"Return", "KP_Enter"} THEN _evaluate_expression
       ELSE IF key = "BackSpace" THEN _handle_backspace
       ELSE _clear_input
    /\ ev' = Event("bind", key)

\* The Degree Mode checkbutton is clicked (calculator.py:43-50).
ToggleMode ==
    /\ is_degree_mode' = ~is_degree_mode
    /\ UNCHANGED <<input_text, n_grow>>
    /\ NoEvaluation
    /\ ev' = Event("mode", "")

NoTree == [style |-> "", ast |-> << >>]

\* The state after construction (calculator.py:11-21), with the buffer and
\* the mode as given.
Start(text, mode, m, tr) ==
    /\ input_text = text
    /\ is_degree_mode = mode
    /\ ev = Event("init", "")
    /\ dialogs = << >>
    /\ caught = NoExc
    /\ escaped = FALSE
    /\ dispatched = {}
    /\ safe_env = NoEnv
    /\ expr = << >>
    /\ n_grow = 0
    /\ memo = m
    /\ tree = tr

(***************************************************************************)
(* The application from its construction on, with a part of its buttons    *)
(* and keys.                                                               *)
(***************************************************************************)
Init == Start(<< >>, TRUE, NoMemo, NoTree)

RunLabels ==
    {"C", "u232B", "=", "u00B1", "u00F7", "0", ".", ")", "e", "log"}

RunKeys == {"^", "x"}

Next ==
    \/ \E label \in RunLabels : Button(label)
    \/ \E char \in RunKeys : Key(char)
    \/ \E key \in BoundKeys : Bind(key)
    \/ ToggleMode

Spec == Init /\ [][Next]_vars

(***************************************************************************)
(* One button press on a buffer: every button of the grid, on the buffers  *)
(* drawn below, in either mode.                                            *)
(***************************************************************************)
MaxDrawnLen == 3    \* length of the buffers a button is pressed on

\* The texts of up to n characters of chars.
RECURSIVE TextsOver(_, _)
TextsOver(chars, n) ==
    IF n = 0 THEN {<< >>}
    ELSE LET shorter == TextsOver(chars, n - 1) IN
         shorter \cup {Append(t, c) : t \in {u \in shorter : Len(u) = n - 1},
                                      c \in chars}

DrawnChars == {"2", "0", "-", "/", "e", "#"}

DrawnBuffers == TextsOver(DrawnChars, MaxDrawnLen)

InitButton ==
    \E b \in DrawnBuffers, mode \in BOOLEAN : Start(b, mode, NoMemo, NoTree)

NextButton ==
    /\ ev.src = "init"
    /\ \E label \in Labels : Button(label)

SpecButton == InitButton /\ [][NextButton]_vars

(***************************************************************************)
(* One evaluation of a raw text: the texts of the characters below, which  *)
(* hold the glyphs and the alias that a normalization could rewrite.       *)
(***************************************************************************)
RawChars == {"u221A", "^", "u00F7", "u00D7", "l", "n", "2", "("}

RawTexts == TextsOver(RawChars, MaxRawLen) \ {<< >>}

InitNormalize == \E raw \in RawTexts : Start(raw, TRUE, NoMemo, NoTree)

NextNormalize ==
    /\ ev.src = "init"
    /\ \E key \in {"Return", "KP_Enter"} : Bind(key)

SpecNormalize == InitNormalize /\ [][NextNormalize]_vars

(***************************************************************************)
(* One evaluation of the text of an expression tree.  The trees have the   *)
(* leaves 2 and 3, the operators + - * / ** and unary minus.  A tree is    *)
(* written out with the fewest parentheses that a table of precedence      *)
(* requires: "claimed" puts unary minus above "**", "python" below it.     *)
(***************************************************************************)
LeafNodes == {Node("num", <<"2">>), Node("num", <<"3">>)}

BinOps == {"+", "-", "*", "/", "**"}

\* The trees of n operators, in prefix order.
RECURSIVE TreesOf(_)
TreesOf(n) ==
    IF n = 0 THEN {<<l>> : l \in LeafNodes}
    ELSE {<<Node("neg", << >>)>> \o a : a \in TreesOf(n - 1)}
         \cup UNION {{<<Node("bin", <<op>>)>> \o a \o b :
                        op \in BinOps, a \in TreesOf(i),
                        b \in TreesOf(n - 1 - i)} : i \in 0..(n - 1)}

Trees == UNION {TreesOf(n) : n \in 0..MaxTreeOps}

Styles == {"claimed", "python"}

Level(nd, style) ==
    IF nd.k = "num" THEN 5
    ELSE IF nd.k = "neg" THEN (IF style = "claimed" THEN 4 ELSE 3)
    ELSE IF nd.v = <<"**">> THEN (IF style = "claimed" THEN 3 ELSE 4)
    ELSE IF nd.v[1] \in {"*", "/"} THEN 2
    ELSE 1

Paren(r, needed) ==
    IF needed THEN <<"(">> \o r.text \o <<")">> ELSE r.text

OpText(nd) == IF nd.v = <<"**">> THEN <<"*", "*">> ELSE nd.v

\* The text of the subtree at i: "**" groups to the right, the other
\* binary operators to the left.
RECURSIVE RenderAt(_, _, _)
RenderAt(t, i, style) ==
    LET nd == t[i]
        lvl == Level(nd, style)
    IN
    IF nd.k = "num" THEN [text |-> nd.v, pos |-> i + 1, lvl |-> lvl]
    ELSE LET a == RenderAt(t, i + 1, style) IN
      IF nd.k = "neg" THEN
        [text |-> <<"-">> \o Paren(a, a.lvl < lvl), pos |-> a.pos, lvl |-> lvl]
      ELSE LET b == RenderAt(t, a.pos, style)
               right == nd.v = <<"**">>
           IN [text |-> Paren(a, IF right THEN a.lvl <= lvl ELSE a.lvl < lvl)
                          \o OpText(nd)
                          \o Paren(b, IF right THEN b.lvl < lvl ELSE b.lvl <= lvl),
               pos |-> b.pos, lvl |-> lvl]

Render(t, style) == RenderAt(t, 1, style).text

InitPrecedence ==
    \E t \in Trees, style \in Styles :
        Start(Render(t, style), TRUE, NoMemo, [style |-> style, ast |-> t])

NextPrecedence ==
    /\ ev.src = "init"
    /\ \E label \in {"="} : Button(label)

SpecPrecedence == InitPrecedence /\ [][NextPrecedence]_vars

(***************************************************************************)
(* The application from its construction on, with the evaluation before    *)
(* the current one on record.                                              *)
(***************************************************************************)
InitHistory == Start(<< >>, TRUE, [NoMemo EXCEPT !.on = TRUE], NoTree)

HistoryLabels == {"C", "u232B", "=", "cos", "0", ")"}

NextHistory ==
    \/ \E label \in HistoryLabels : Button(label)
    \/ ToggleMode

SpecHistory == InitHistory /\ [][NextHistory]_vars

(***************************************************************************)
(* The properties.                                                         *)
(***************************************************************************)
\* The event e runs _evaluate_expression.
EvalEvent(e) ==
    \/ (e.src = "button" /\ e.arg = "=")
    \/ (e.src = "bind" /\ e.arg \in {"Return", "KP_Enter"})

\* The last event ran eval() (the buffer was not blank).
Evaluated == EvalEvent(ev) /\ safe_env # NoEnv

Failed == Evaluated /\ caught # NoExc

Succeeded == Evaluated /\ caught = NoExc /\ ~escaped /\ dialogs = << >>

\* The operations the evaluator is said to be confined to: lookups of
\* names, calls, the four operators, "**" and the signs.
FixedOperations == {"name", "call", "+", "-", "*", "/", "**", "neg", "pos"}

\* What is written out in the text is no operation.
Literals == {"num", "tuple", "ellipsis"}

\* C1: an evaluation dispatches to nothing but the fixed operators and the
\* entries of the table: no attribute access, no other operation.
C1_OnlyFixedOperations ==
    Evaluated => dispatched \subseteq (FixedOperations \cup Literals)

\* C2: an evaluation that fails, for any reason, leaves the buffer as it
\* was and shows exactly one dialog; no failure escapes the handler.
C2_FailureKeepsBuffer ==
    [][(EvalEvent(ev') /\ (caught' # NoExc \/ escaped'))
          => (/\ input_text' = input_text
              /\ Len(dialogs') = 1
              /\ ~escaped')]_vars

\* An evaluation failed with one dialog shown.
C2_Witness == EvalEvent(ev) /\ caught # NoExc /\ Len(dialogs) = 1

\* The text of a number: digits with a sign, a point or an exponent.
IsNumberText(s) ==
    /\ s # << >>
    /\ s[1] \in DigitChars \cup {"-"}
    /\ \A i \in 1..Len(s) : s[i] \in DigitChars \cup {"-", "+", ".", "e"}

\* C3: after an evaluation that succeeds the buffer is the rendering of a
\* number, never that of a function or another object.
C3_ResultIsNumber == Succeeded => IsNumberText(input_text)

\* The outcome of the last evaluation is that of the tree the buffer was
\* written out from in the given style.
C4_Agrees(style) ==
    (Evaluated /\ tree.style = style) =>
        LET r == EvalAt(tree.ast, 1, safe_env) IN
        \/ /\ r.st = "ok"
           /\ Succeeded
           /\ input_text = Str(r.v, CHOOSE a \in Addresses : TRUE)
        \/ /\ r.st = "exc"
           /\ caught = r.x

\* C4 as amended: the value is that of the precedence in which "**" binds
\* tighter than a unary minus on its left, and otherwise as stated.
C4_PythonPrecedence == C4_Agrees("python")

\* C4: the value is that of the precedence in which unary minus binds
\* tighter than "**", so that -2**2 is (-2)**2.
C4_ClaimedPrecedence == C4_Agrees("claimed")

\* -(2**2), written -2**2, has been evaluated to -4.
C4_Witness ==
    /\ Evaluated
    /\ tree.style = "python"
    /\ tree.ast = <<Node("neg", << >>), Node("bin", <<"**">>),
                    Node("num", <<"2">>), Node("num", <<"2">>)>>
    /\ input_text = <<"-", "4">>

\* What the lookup of a name that is not in the table raises.
UnknownName ==
    Exc("TypeError", "'NoneType' object is not subscriptable")

\* The titles of the dialogs for malformed syntax, for a domain violation
\* and for division by zero.
OtherKinds ==
    {ErrorDialog(Exc(t, "")).title :
        t \in {"SyntaxError", "ValueError", "ZeroDivisionError"}}

NegText(s) ==
    IF s = <<"0">> THEN s
    ELSE IF s[1] = "-" THEN Tail(s) ELSE <<"-">> \o s

\* With b a number v in the table env, after is -v there.
Negates(b, after, env, addr) ==
    LET v == Eval(Normalize(b), env) IN
    (v.st = "ok" /\ IsNum(v.v)) =>
        LET w == Eval(Normalize(after), env) IN
        w.st = "ok" /\ Str(w.v, addr) = NegText(Str(v.v, addr))

\* C6: the sign button turns a buffer b that is not empty into (-1)*(b),
\* which evaluates to -v where b evaluates to the number v, and leaves an
\* empty buffer empty.
C6_ToggleSign ==
    [][(ev'.src = "button" /\ ev'.arg = "u00B1") =>
          IF input_text = << >> THEN input_text' = << >>
          ELSE /\ input_text' = <<"(", "-", "1", ")", "*", "(">>
                                    \o input_text \o <<")">>
               /\ Negates(input_text, input_text',
                          _build_safe_environment(is_degree_mode),
                          CHOOSE a \in Addresses : TRUE)]_vars

\* Each character of s that is a key of map gives way to the text the map
\* has for it.
RECURSIVE Subst(_, _)
Subst(s, map) ==
    IF s = << >> THEN << >>
    ELSE (IF Head(s) \in DOMAIN map THEN map[Head(s)] ELSE <<Head(s)>>)
            \o Subst(Tail(s), map)

\* The substitutions the normalization is said to make, the alias ln among
\* them.
RECURSIVE ClaimedNormalize(_)
ClaimedNormalize(s) ==
    IF s = << >> THEN << >>
    ELSE IF Len(s) >= 2 /\ s[1] = "l" /\ s[2] = "n"
    THEN <<"l", "o", "g">> \o ClaimedNormalize(SubSeq(s, 3, Len(s)))
    ELSE Subst(<<Head(s)>>,
               [u221A |-> <<"s", "q", "r", "t", "(">>,
                u00F7 |-> <<"/">>,
                u00D7 |-> <<"*">>] @@ ("^" :> <<"*", "*">>))
            \o ClaimedNormalize(Tail(s))

C8_SameOutcome ==
    [][(/\ EvalEvent(ev') /\ safe_env' # NoEnv
        /\ memo.set /\ memo.text = input_text /\ memo.mode = is_degree_mode)
          => (input_text' = memo.after /\ dialogs' = memo.shown)]_vars

TableKeys ==
    {"pi", "e", "radians", "degrees", "sqrt", "log", "log10", "factorial",
     "sin", "cos", "tan"}

TrigKeys == {"sin", "cos", "tan"}

\* The closure each trigonometric key is bound to in degrees mode.
DegreeFunctions == [sin |-> "sin_deg", cos |-> "cos_deg", tan |-> "tan_deg"]

\* Each of these closures is the function of its key applied to radians(x).
ComposedWithRadians ==
    \A k \in TrigKeys, x \in {IntV(0), IntV(1), IntV(2)} :
        Apply(DegreeFunctions[k], x) = MathCall(k, MathCall("radians", x).v)

\* C9: the table of an evaluation has exactly the eleven keys; what is
\* bound to a key other than sin, cos and tan does not depend on the mode;
\* sin, cos and tan are the functions of the math module in radians mode
\* and those functions applied to radians(x) in degrees mode.
C9_SymbolTable ==
    safe_env # NoEnv =>
        /\ DOMAIN safe_env = TableKeys
        /\ \A k \in {"radians", "degrees", "sqrt", "log", "log10", "factorial"} :
              safe_env[k] = FuncV(k)
        /\ safe_env["pi"] = OpaqueV(1, PiDigits)
        /\ safe_env["e"] = OpaqueV(1, EDigits)
        /\ \A k \in TrigKeys :
              IF is_degree_mode
              THEN safe_env[k] = FuncV(DegreeFunctions[k]) /\ ComposedWithRadians
              ELSE safe_env[k] = FuncV(k)

\* An evaluation in radians mode.
C9_Witness == Evaluated /\ ~is_degree_mode /\ safe_env["sin"] = FuncV("sin")

\* The text a button other than C and the backspace appends.
C10_Text(label) ==
    CASE label = "u221A" -> <<"s", "q", "r", "t", "(">>
      [] label = "xu00B2" -> <<"*", "*", "2">>
      [] label = "u00F7" -> <<"/">>
      [] label = "u00D7" -> <<"*">>
      [] label = "u03C0" -> <<"p", "i">>
      [] label = "sin" -> <<"s", "i", "n", "(">>
      [] label = "cos" -> <<"c", "o", "s", "(">>
      [] label = "tan" -> <<"t", "a", "n", "(">>
      [] label \in {"log", "ln"} -> <<"l", "o", "g", "(">>
      [] OTHER -> <<label>>

C10_After(label, b) ==
    IF label = "C" THEN << >>
    ELSE IF label = "u232B"
    THEN (IF b = << >> THEN << >> ELSE SubSeq(b, 1, Len(b) - 1))
    ELSE b \o C10_Text(label)

\* C10: a button other than "=" and the sign button changes the buffer as
\* the mapping says (C clears, the backspace drops the last character, the
\* others append their text) and leaves the mode alone.
C10_ButtonMapping ==
    [][(ev'.src = "button" /\ ev'.arg \in Labels \ {"=", "u00B1"})
          => (/\ input_text' = C10_After(ev'.arg, input_text)
              /\ is_degree_mode' = is_degree_mode)]_vars

\* The ln button has been pressed on the buffer 2.
C10_Witness ==
    /\ ev = Event("button", "ln")
    /\ input_text = <<"2", "l", "o", "g", "(">>

====
